---- MODULE Spec2Model ----
(***************************************************************************)
(* A model of the workout planner (src/app.py) as one interactive session  *)
(* of the hosting form framework: the script is run from top to bottom on  *)
(* every user event; session state (the history list) survives the runs.   *)
(*                                                                         *)
(* Strings are sequences of atoms: every literal piece of an f-string or   *)
(* of the prompt template is one atom, an integer is converted to its      *)
(* decimal digits, and concatenation is \o.                                *)
(*                                                                         *)
(* User events are taken only between script runs (pc = "idle"): the       *)
(* interruption of a running script by the hosting framework is not part   *)
(* of the repository's code and is not modelled.                           *)
(***************************************************************************)
EXTENDS Integers, Sequences, FiniteSets, TLC

(* ---------------------------------------------------------------- bounds *)

\* Submit clicks in one session.
MaxSubmits == 2
\* Widget changes in one session.
MaxEdits == 1
\* Seconds the wall clock advances in one session.
MaxTicks == 1

(* ------------------------------------------------------ program constants *)

\* st.number_input(..., min_value=10, max_value=120, value=30, ...)
MinDuration == 10
MaxDuration == 120
DefaultDuration == 30

\* The option lists of the three select boxes, in the order of the source.
FitnessLevels == <<"Beginner", "Intermediate", "Advanced">>
Goals == <<"Weight Loss", "Muscle Gain", "Endurance", "General Fitness">>
Equipments == <<"Bodyweight", "Dumbbells", "Gym Equipment", "Resistance Bands">>

Range(s) == {s[i] : i \in DOMAIN s}

(* ------------------------------------------------------------ environment *)

\* os.getenv("GOOGLE_API_KEY"): None when the variable is unset, else a string.
NoneKey == "<None>"
KeyValues == {NoneKey, "", "AIza-key"}

\* What the generation service can answer: response.text of a completion ...
Responses == { <<"Do 10 squats.">> }
\* ... or an exception raised by model.generate_content / response.text,
\* given by str(e).
Errors == { <<"429 ", "quota exceeded">> }

Outcomes == [ok : {TRUE}, text : Responses] \cup [ok : {FALSE}, text : Errors]

\* Values a user can try to enter in the duration field: the two limits and
\* their outer neighbours.
TypedDurations == {MinDuration - 1, MinDuration, MaxDuration, MaxDuration + 1}

(* ------------------------------------------------------------------ text *)

Digits == <<"0", "1", "2", "3", "4", "5", "6", "7", "8", "9">>
Digit(n) == Digits[n + 1]

\* str(n) / f"{n}" of a non-negative int: its decimal digits, no padding.
RECURSIVE Str(_)
Str(n) == IF n < 10 THEN <<Digit(n)>> ELSE Str(n \div 10) \o <<Digit(n % 10)>>

\* strftime's zero-padded fields: %m %d %H %M %S (two digits), %Y (four).
Pad2(n) == <<Digit((n \div 10) % 10), Digit(n % 10)>>
Pad4(n) == Pad2(n \div 100) \o Pad2(n % 100)

(* ----------------------------------------------------------------- clock *)

\* datetime.now(): a naive local date and time with one-second resolution
\* (the fraction is dropped by both strftime formats of the source).
StartTime ==
    [year |-> 2024, month |-> 12, day |-> 31, hour |-> 23, minute |-> 59, second |-> 58]

IsLeap(y) == (y % 4 = 0 /\ y % 100 # 0) \/ y % 400 = 0
DaysInMonth(y, m) ==
    IF m = 2 THEN (IF IsLeap(y) THEN 29 ELSE 28)
    ELSE IF m \in {4, 6, 9, 11} THEN 30 ELSE 31

NextDay(t) ==
    IF t.day < DaysInMonth(t.year, t.month) THEN [t EXCEPT !.day = t.day + 1]
    ELSE IF t.month < 12 THEN [t EXCEPT !.day = 1, !.month = t.month + 1]
    ELSE [t EXCEPT !.day = 1, !.month = 1, !.year = t.year + 1]

NextSecond(t) ==
    IF t.second < 59 THEN [t EXCEPT !.second = t.second + 1]
    ELSE IF t.minute < 59 THEN [t EXCEPT !.second = 0, !.minute = t.minute + 1]
    ELSE IF t.hour < 23 THEN [t EXCEPT !.second = 0, !.minute = 0, !.hour = t.hour + 1]
    ELSE NextDay([t EXCEPT !.second = 0, !.minute = 0, !.hour = 0])

\* .strftime('%Y%m%d_%H%M%S')
StrftimeFileDropSeconds(t) ==
    Pad4(t.year) \o Pad2(t.month) \o Pad2(t.day) \o <<"_">>
        \o Pad2(t.hour) \o Pad2(t.minute)
StrftimeFile(t) ==
    Pad4(t.year) \o Pad2(t.month) \o Pad2(t.day) \o <<"_">>
        \o Pad2(t.hour) \o Pad2(t.minute) \o Pad2(t.second)

\* .strftime("%Y-%m-%d %H:%M:%S")
StrftimeEntry(t) ==
    Pad4(t.year) \o <<"-">> \o Pad2(t.month) \o <<"-">> \o Pad2(t.day) \o <<" ">>
        \o Pad2(t.hour) \o <<":">> \o Pad2(t.minute) \o <<":">> \o Pad2(t.second)

(* ---------------------------------------------------- the pure functions *)

\* workout_prompt = PromptTemplate(...): the template, cut at its placeholders.
workout_prompt ==
    << [kind |-> "lit", text |-> "Create a personalized workout plan for a "],
       [kind |-> "var", text |-> "fitness_level"],
       [kind |-> "lit", text |-> " individual whose goal is "],
       [kind |-> "var", text |-> "goal"],
       [kind |-> "lit", text |-> ". The workout should last "],
       [kind |-> "var", text |-> "duration"],
       [kind |-> "lit", text |-> " minutes and use "],
       [kind |-> "var", text |-> "equipment"],
       [kind |-> "lit",
        text |-> " equipment. Provide step-by-step exercises with sets, reps, and rest intervals."] >>

\* PromptTemplate.format(**kwargs): every placeholder is replaced by the text of
\* the keyword argument of its name, every literal piece is copied.
RECURSIVE Format(_, _)
Format(template, kwargs) ==
    IF template = <<>> THEN <<>>
    ELSE LET part == Head(template)
         IN (IF part.kind = "var" THEN kwargs[part.text] ELSE <<part.text>>)
                \o Format(Tail(template), kwargs)

\* workout_prompt.format(fitness_level=..., goal=..., duration=..., equipment=...)
workout_prompt_format_swapped(fl, g, d, e) ==
    Format(workout_prompt,
           [fitness_level |-> <<fl>>, goal |-> <<e>>, duration |-> Str(d), equipment |-> <<g>>])
workout_prompt_format(fl, g, d, e) ==
    Format(workout_prompt,
           [fitness_level |-> <<fl>>, goal |-> <<g>>, duration |-> Str(d), equipment |-> <<e>>])

\* f"An error occurred: {str(e)}"
ErrorTextNoDetail(e) == <<"An error occurred:", " ">>
ErrorText(e) == <<"An error occurred:", " ">> \o e

\* st.error(f"... Error generating workout: {str(e)}"); the first atom stands for
\* the cross-mark sign and the blank that open the message.
ErrorMessage(e) == <<"(x) ", "Error generating workout: ">> \o e

\* generate_workout under one outcome of the service: the prompt it sends, the
\* value it returns, the messages it shows, and whether an exception leaves it
\* (never: the handler is "except Exception").
generate_workout_uncaught(fl, g, d, e, outcome) ==
    [ prompt |-> workout_prompt_format(fl, g, d, e),
      raised |-> ~outcome.ok,
      value  |-> outcome.text,
      shown  |-> <<>> ]
generate_workout(fl, g, d, e, outcome) ==
    [ prompt |-> workout_prompt_format(fl, g, d, e),
      raised |-> FALSE,
      value  |-> IF outcome.ok THEN outcome.text ELSE ErrorText(outcome.text),
      shown  |-> IF outcome.ok THEN <<>> ELSE <<ErrorMessage(outcome.text)>> ]

\* The drawing canvas (FPDF) as the list of the text items written to it:
\* cell and multi_cell add their text, ln adds none.
PdfCell(pdf, txt) == Append(pdf, txt)
PdfLn(pdf) == pdf
PdfMultiCell(pdf, txt) == Append(pdf, txt)

\* The text items create_pdf writes, in the order of its statements.
create_pdf_items_swapped(workout_plan_, fl, g, d, e) ==
    LET p1 == PdfLn(PdfCell(<<>>, <<"Personalized Workout Plan">>))
        p2 == PdfCell(p1, <<"Fitness Level: ", fl>>)
        p3 == PdfCell(p2, <<"Equipment: ", e>>)
        p4 == PdfCell(p3, <<"Duration: ">> \o Str(d) \o <<" minutes">>)
        p5 == PdfLn(PdfCell(p4, <<"Goal: ", g>>))
    IN PdfMultiCell(p5, workout_plan_)
create_pdf_items(workout_plan_, fl, g, d, e) ==
    LET p1 == PdfLn(PdfCell(<<>>, <<"Personalized Workout Plan">>))
        p2 == PdfCell(p1, <<"Fitness Level: ", fl>>)
        p3 == PdfCell(p2, <<"Goal: ", g>>)
        p4 == PdfCell(p3, <<"Duration: ">> \o Str(d) \o <<" minutes">>)
        p5 == PdfLn(PdfCell(p4, <<"Equipment: ", e>>))
    IN PdfMultiCell(p5, workout_plan_)

\* filename = f"Workout_Plan_{datetime.now().strftime('%Y%m%d_%H%M%S')}.pdf"
FileName(now) == <<"Workout_Plan_">> \o StrftimeFile(now) \o <<".pdf">>

\* create_pdf at clock reading `now`.
create_pdf(workout_plan_, fl, g, d, e, now) ==
    [ items |-> create_pdf_items(workout_plan_, fl, g, d, e), filename |-> FileName(now) ]

\* "if not GOOGLE_API_KEY": None and the empty string are both false.
KeyMissingOnlyNone(k) == k = NoneKey
KeyMissing(k) == k = NoneKey \/ k = ""

\* The duration field accepts an integer within [min_value, max_value].
NumberInputAcceptsNoMax(v) == v \in Int /\ MinDuration <= v
NumberInputAccepts(v) == v \in Int /\ MinDuration <= v /\ v <= MaxDuration

\* 'if "workout_history" not in st.session_state: ... = []'
SessionHistoryAlwaysNew(present, h) == <<>>
SessionHistory(present, h) == IF present THEN h ELSE <<>>

\* "if generate_button:" then the submission's statements, else on to the history.
AfterWidgetsAlways(b) == "gen"
AfterWidgets(b) == IF b THEN "gen" ELSE "hist"

\* The statements of main() after the widgets, in their order in the source.
StepAfterHistoryLast(step) ==
    CASE step = "gen" -> "show"
      [] step = "show" -> "pdf"
      [] step = "pdf" -> "download"
      [] step = "download" -> "append"
      [] step = "append" -> "hist"
      [] step = "hist" -> "idle"
StepAfter(step) ==
    CASE step = "gen" -> "append"
      [] step = "append" -> "show"
      [] step = "show" -> "pdf"
      [] step = "pdf" -> "download"
      [] step = "download" -> "hist"
      [] step = "hist" -> "idle"

(* ------------------------------------------------------------- the state *)

VARIABLES
    key,              \* GOOGLE_API_KEY of the process environment
    model_ok,         \* whether genai.GenerativeModel(...) returns in this installation
    pc,               \* position of the script run: "idle" between two runs
    button,           \* generate_button of the current run
    form,             \* the sidebar widgets are on the page of the current run
    errors,           \* the st.error messages of the current run
    run_result,       \* "running", "done", "stopped" (st.stop) or "exception"
    fitness_level,    \* the four widget values
    goal,
    duration,
    equipment,
    has_history,      \* "workout_history" in st.session_state
    workout_history,  \* st.session_state.workout_history
    workout_plan,     \* main's local of the current run (<<>> before it is set)
    pdf_file,         \* main's local of the current run (<<>> before it is set)
    clock,            \* what datetime.now() returns
    files,            \* the working directory: file name -> text items of the document
    shown_plan,       \* st.markdown(workout_plan) of the current run
    download,         \* the download button of the current run, as a sequence of 0 or 1
    shown_history,    \* the expanders of the history section of the current run
    trace,            \* the steps of the current run, in order
    sent,             \* every prompt sent to the service, in order
    results,          \* the service's outcome for every prompt sent, in order
    pdf_calls,        \* every call of create_pdf: clock reading, arguments, name
    clicks,           \* the widget values at every click on the button, in order
    edits,            \* widget changes so far
    ticks             \* seconds passed so far

vars ==
    << key, model_ok, pc, button, form, errors, run_result, fitness_level, goal,
       duration, equipment, has_history, workout_history, workout_plan, pdf_file,
       clock, files, shown_plan, download, shown_history, trace, sent, results,
       pdf_calls, clicks, edits, ticks >>

env == << key, model_ok >>
widgets == << fitness_level, goal, duration, equipment >>
session == << has_history, workout_history >>
disk == << files, pdf_calls >>
service == << sent, results >>
page == << errors, shown_plan, download, shown_history >>
locals == << workout_plan, pdf_file >>

Inputs ==
    [fitness_level |-> fitness_level, goal |-> goal, duration |-> duration,
     equipment |-> equipment]

\* A new session: the first script run is about to start, nothing was pressed,
\* the widgets will show their defaults (the first option, value=30).
Init ==
    /\ key \in KeyValues
    /\ model_ok \in BOOLEAN
    /\ pc = "start"
    /\ button = FALSE
    /\ form = FALSE
    /\ errors = <<>>
    /\ run_result = "running"
    /\ fitness_level = FitnessLevels[1]
    /\ goal = Goals[1]
    /\ duration = DefaultDuration
    /\ equipment = Equipments[1]
    /\ has_history = FALSE
    /\ workout_history = <<>>
    /\ workout_plan = <<>>
    /\ pdf_file = <<>>
    /\ clock = StartTime
    /\ files = <<>>
    /\ shown_plan = <<>>
    /\ download = <<>>
    /\ shown_history = <<>>
    /\ trace = <<>>
    /\ sent = <<>>
    /\ results = <<>>
    /\ pdf_calls = <<>>
    /\ clicks = <<>>
    /\ edits = 0
    /\ ticks = 0

(* ------------------------------------------------------------ user events *)

\* Every user event starts a script run from the top with an empty page;
\* the button is True only in the run its click started.
BeginRun(pressed) ==
    /\ pc' = "start"
    /\ button' = pressed
    /\ form' = FALSE
    /\ errors' = <<>>
    /\ run_result' = "running"
    /\ workout_plan' = <<>>
    /\ pdf_file' = <<>>
    /\ shown_plan' = <<>>
    /\ download' = <<>>
    /\ shown_history' = <<>>
    /\ trace' = <<>>

SelectFitnessLevel ==
    /\ pc = "idle" /\ form /\ edits < MaxEdits
    /\ \E v \in Range(FitnessLevels) \ {fitness_level} : fitness_level' = v
    /\ edits' = edits + 1
    /\ BeginRun(FALSE)
    /\ UNCHANGED << env, goal, duration, equipment, session, clock, disk, service, clicks, ticks >>

SelectGoal ==
    /\ pc = "idle" /\ form /\ edits < MaxEdits
    /\ \E v \in Range(Goals) \ {goal} : goal' = v
    /\ edits' = edits + 1
    /\ BeginRun(FALSE)
    /\ UNCHANGED << env, fitness_level, duration, equipment, session, clock, disk, service, clicks, ticks >>

SelectEquipment ==
    /\ pc = "idle" /\ form /\ edits < MaxEdits
    /\ \E v \in Range(Equipments) \ {equipment} : equipment' = v
    /\ edits' = edits + 1
    /\ BeginRun(FALSE)
    /\ UNCHANGED << env, fitness_level, goal, duration, session, clock, disk, service, clicks, ticks >>

\* The duration field: a value the field does not accept is not committed and
\* starts no run.
InputDuration ==
    /\ pc = "idle" /\ form /\ edits < MaxEdits
    /\ \E v \in TypedDurations \ {duration} :
          /\ NumberInputAccepts(v)
          /\ duration' = v
    /\ edits' = edits + 1
    /\ BeginRun(FALSE)
    /\ UNCHANGED << env, fitness_level, goal, equipment, session, clock, disk, service, clicks, ticks >>

ClickGenerate ==
    /\ pc = "idle" /\ form /\ Len(clicks) < MaxSubmits
    /\ clicks' = Append(clicks, Inputs)
    /\ BeginRun(TRUE)
    /\ UNCHANGED << env, widgets, session, clock, disk, service, edits, ticks >>

\* A rerun of the script with nothing changed.
Rerun ==
    /\ pc = "idle"
    /\ BeginRun(FALSE)
    /\ UNCHANGED << env, widgets, session, clock, disk, service, clicks, edits, ticks >>

\* A second passes. The clock is read by two statements only (the append of
\* the entry and create_pdf), so the time that passes anywhere else is taken
\* just before the next read: the values read are the same.
Tick ==
    /\ pc \in {"append", "pdf"}
    /\ ticks < MaxTicks
    /\ clock' = NextSecond(clock)
    /\ ticks' = ticks + 1
    /\ UNCHANGED << env, pc, button, form, run_result, widgets, session, locals, files,
                    pdf_calls, service, page, trace, clicks, edits >>

(* ---------------------------------------------------------- the script run *)

KeyMissingMessage == <<"(x) ", "Gemini API Key missing! Please add it to the .env file.">>
InitErrorMessage == <<"(x) ", "Gemini Initialization Error: ">>

\* Lines 10-27: the credential check and the model's construction; st.stop()
\* ends the run.
TopLevel ==
    /\ pc = "start"
    /\ IF KeyMissing(key)
         THEN /\ errors' = Append(errors, KeyMissingMessage)
              /\ pc' = "idle"
              /\ run_result' = "stopped"
         ELSE IF ~model_ok
         THEN /\ errors' = Append(errors, InitErrorMessage)
              /\ pc' = "idle"
              /\ run_result' = "stopped"
         ELSE /\ pc' = "main"
              /\ UNCHANGED << errors, run_result >>
    /\ UNCHANGED << env, button, form, widgets, session, locals, clock, disk, service,
                    shown_plan, download, shown_history, trace, clicks, edits, ticks >>

\* Lines 76-114: the page head, the sidebar widgets, the history list's creation.
RenderForm ==
    /\ pc = "main"
    /\ form' = TRUE
    /\ has_history' = TRUE
    /\ workout_history' = SessionHistory(has_history, workout_history)
    /\ pc' = AfterWidgets(button)
    /\ UNCHANGED << env, button, errors, run_result, widgets, locals, clock, disk, service,
                    shown_plan, download, shown_history, trace, clicks, edits, ticks >>

\* Line 116: workout_plan = generate_workout(...).
Generate ==
    /\ pc = "gen"
    /\ \E outcome \in Outcomes :
          LET r == generate_workout(fitness_level, goal, duration, equipment, outcome)
          IN /\ sent' = Append(sent, r.prompt)
             /\ results' = Append(results, outcome)
             /\ errors' = errors \o r.shown
             /\ trace' = trace \o <<"prompt", "call">>
             /\ IF r.raised
                  THEN /\ pc' = "idle"
                       /\ run_result' = "exception"
                       /\ UNCHANGED workout_plan
                  ELSE /\ pc' = StepAfter("gen")
                       /\ workout_plan' = r.value
                       /\ UNCHANGED run_result
    /\ UNCHANGED << env, button, form, widgets, session, pdf_file, clock, disk,
                    shown_plan, download, shown_history, clicks, edits, ticks >>

\* Lines 117-125: the entry is appended, with the time of the append.
AppendHistory ==
    /\ pc = "append"
    /\ workout_history' =
          Append(workout_history,
                 [plan |-> workout_plan, fitness_level |-> fitness_level, goal |-> goal,
                  duration |-> duration, equipment |-> equipment,
                  date |-> StrftimeEntry(clock)])
    /\ trace' = Append(trace, "append")
    /\ pc' = StepAfter("append")
    /\ UNCHANGED << env, button, form, errors, run_result, widgets, has_history, locals,
                    clock, disk, service, shown_plan, download, shown_history, clicks,
                    edits, ticks >>

\* Lines 127-128.
ShowPlan ==
    /\ pc = "show"
    /\ shown_plan' = workout_plan
    /\ trace' = Append(trace, "show")
    /\ pc' = StepAfter("show")
    /\ UNCHANGED << env, button, form, errors, run_result, widgets, session, locals, clock,
                    disk, service, download, shown_history, clicks, edits, ticks >>

\* Line 130: pdf_file = create_pdf(...). pdf.output writes the file under the
\* name, replacing a file of the same name.
CreatePdf ==
    /\ pc = "pdf"
    /\ LET r == create_pdf(workout_plan, fitness_level, goal, duration, equipment, clock)
       IN /\ pdf_calls' = Append(pdf_calls,
                                 [at |-> clock, args |-> Inputs, body |-> workout_plan,
                                  items |-> r.items, name |-> r.filename])
          /\ files' = (r.filename :> r.items) @@ files
          /\ pdf_file' = r.filename
    /\ trace' = Append(trace, "pdf")
    /\ pc' = StepAfter("pdf")
    /\ UNCHANGED << env, button, form, errors, run_result, widgets, session, workout_plan,
                    clock, service, shown_plan, download, shown_history, clicks, edits,
                    ticks >>

\* Lines 131-137: the file is opened and offered under its name.
OfferDownload ==
    /\ pc = "download"
    /\ download' = << [file_name |-> pdf_file, data |-> files[pdf_file],
                       mime |-> "application/pdf"] >>
    /\ trace' = Append(trace, "download")
    /\ pc' = StepAfter("download")
    /\ UNCHANGED << env, button, form, errors, run_result, widgets, session, locals, clock,
                    disk, service, shown_plan, shown_history, clicks, edits, ticks >>

\* Lines 139-147: one expander per entry, "Workout {i+1} - {date}".
RenderHistory ==
    /\ pc = "hist"
    /\ shown_history' =
          [i \in 1..Len(workout_history) |->
              <<"Workout ">> \o Str(i) \o <<" - ">> \o workout_history[i].date]
    /\ pc' = StepAfter("hist")
    /\ run_result' = "done"
    /\ UNCHANGED << env, button, form, errors, widgets, session, locals, clock, disk,
                    service, shown_plan, download, trace, clicks, edits, ticks >>

Next ==
    \/ SelectFitnessLevel
    \/ SelectGoal
    \/ SelectEquipment
    \/ InputDuration
    \/ ClickGenerate
    \/ Rerun
    \/ Tick
    \/ TopLevel
    \/ RenderForm
    \/ Generate
    \/ AppendHistory
    \/ ShowPlan
    \/ CreatePdf
    \/ OfferDownload
    \/ RenderHistory

Spec == Init /\ [][Next]_vars

\* A first submission after any number of widget changes: the run has reached
\* line 114 with the button pressed, the widgets hold any values they accept.
InitFirstSubmit ==
    /\ key = "AIza-key"
    /\ model_ok = TRUE
    /\ pc = "gen"
    /\ button = TRUE
    /\ form = TRUE
    /\ errors = <<>>
    /\ run_result = "running"
    /\ fitness_level \in Range(FitnessLevels)
    /\ goal \in Range(Goals)
    /\ duration \in {d \in MinDuration..MaxDuration : NumberInputAccepts(d)}
    /\ equipment \in Range(Equipments)
    /\ has_history = TRUE
    /\ workout_history = <<>>
    /\ workout_plan = <<>>
    /\ pdf_file = <<>>
    /\ clock = StartTime
    /\ files = <<>>
    /\ shown_plan = <<>>
    /\ download = <<>>
    /\ shown_history = <<>>
    /\ trace = <<>>
    /\ sent = <<>>
    /\ results = <<>>
    /\ pdf_calls = <<>>
    /\ clicks = <<Inputs>>
    /\ edits = 0
    /\ ticks = 0

NextFirstSubmit ==
    \/ Tick
    \/ Generate
    \/ AppendHistory
    \/ ShowPlan
    \/ CreatePdf
    \/ OfferDownload
    \/ RenderHistory

SpecFirstSubmit == InitFirstSubmit /\ [][NextFirstSubmit]_vars

(* ------------------------------------------------- helpers of the properties *)

Last(s) == s[Len(s)]
IsDigit(c) == \E n \in 0..9 : Digits[n + 1] = c
IsPrefix(p, s) == Len(p) <= Len(s) /\ SubSeq(s, 1, Len(p)) = p
Contains(s, p) == \E i \in 0..(Len(s) - Len(p)) : SubSeq(s, i + 1, i + Len(p)) = p
Did(step) == \E i \in 1..Len(trace) : trace[i] = step

\* The number a sequence of decimal digits writes.
DigitValue(c) == CHOOSE n \in 0..9 : Digits[n + 1] = c
RECURSIVE DecimalValue(_)
DecimalValue(ds) ==
    IF ds = <<>> THEN 0
    ELSE 10 * DecimalValue(SubSeq(ds, 1, Len(ds) - 1)) + DigitValue(ds[Len(ds)])

\* ds is the decimal writing of n, without sign or leading zero.
Writes(ds, n) ==
    /\ Len(ds) >= 1
    /\ \A i \in 1..Len(ds) : IsDigit(ds[i])
    /\ (Len(ds) > 1 => ds[1] # "0")
    /\ DecimalValue(ds) = n

\* The text a submission is left with under an outcome of the service.
PlanOf(outcome) ==
    IF outcome.ok THEN outcome.text ELSE <<"An error occurred:", " ">> \o outcome.text

\* The clock reading k seconds after the start of the session.
RECURSIVE Reading(_)
Reading(k) == IF k = 0 THEN StartTime ELSE NextSecond(Reading(k - 1))
SecondOf(t) == CHOOSE k \in 0..MaxTicks : Reading(k) = t

\* The generation call of the current run has failed.
FailedThisRun == Did("call") /\ ~Last(results).ok

(* ------------------------------------------------------------ properties *)

\* C1: whenever the generation call of a run has failed, generate_workout has
\* returned normally (the run goes on, no exception has ended it) and the text
\* it returned begins with "An error occurred:" and contains the text of the
\* error the service raised.
C1_ErrorStringReturned ==
    FailedThisRun =>
        /\ run_result # "exception"
        /\ IsPrefix(<<"An error occurred:">>, workout_plan)
        /\ Contains(workout_plan, Last(results).text)

C1_Witness ==
    /\ FailedThisRun
    /\ pc = "append"
    /\ Last(results).text # <<>>
    /\ duration = MaxDuration

\* C2 (state part): between two runs the history has one entry per click on
\* the button, in the order of the clicks; entry i holds the widget values of
\* click i, the text submission i was left with, and a time stamp read during
\* submission i (not before the previous submission wrote its document, not
\* after its own did).
C2_EntriesMatchSubmissions ==
    /\ Len(workout_history) <= Len(clicks)
    /\ Len(workout_history) >= Len(clicks) - 1
    /\ pc = "idle" =>
          /\ Len(workout_history) = Len(clicks)
          /\ \A i \in 1..Len(workout_history) :
                LET entry == workout_history[i]
                IN /\ entry.fitness_level = clicks[i].fitness_level
                   /\ entry.goal = clicks[i].goal
                   /\ entry.duration = clicks[i].duration
                   /\ entry.equipment = clicks[i].equipment
                   /\ entry.plan = PlanOf(results[i])
                   /\ \E k \in 0..SecondOf(pdf_calls[i].at) :
                         /\ entry.date = StrftimeEntry(Reading(k))
                         /\ (i > 1 => SecondOf(pdf_calls[i - 1].at) <= k)

\* C2 (step part): no step modifies, reorders or removes an existing entry.
C2_EntriesKept ==
    /\ Len(workout_history') >= Len(workout_history)
    /\ \A i \in 1..Len(workout_history) : workout_history'[i] = workout_history[i]

\* C2: within one session, after k submissions (succeeding or failing) the
\* history list has exactly k entries in submission order, each holding the
\* inputs, time stamp and text of its own submission, and no later submission
\* or non-submitting rerun changes an existing entry.
C2_HistoryIsTheSubmissions == []C2_EntriesMatchSubmissions /\ [][C2_EntriesKept]_vars

C2_Witness ==
    /\ pc = "idle"
    /\ ~button
    /\ Len(workout_history) = 2
    /\ workout_history[1].plan # workout_history[2].plan
    /\ workout_history[1].date # workout_history[2].date
    /\ workout_history[1].duration # workout_history[2].duration

\* C3: when the generation call of a run has failed, the run is not ended by
\* it: the error string is the text that is stored as the plan of the appended
\* entry, displayed, and passed as the body to create_pdf (and written as the
\* last item of the document offered), and at the end of the run the form is on
\* the page and takes a further submission.
C3_FailureIsRecoveredLocally ==
    FailedThisRun =>
        LET text == <<"An error occurred:", " ">> \o Last(results).text
        IN /\ run_result \in {"running", "done"}
           /\ form
           /\ workout_plan = text
           /\ (Did("append") => Last(workout_history).plan = text)
           /\ (Did("show") => shown_plan = text)
           /\ (Did("pdf") => /\ Last(pdf_calls).body = text
                             /\ Last(Last(pdf_calls).items) = text)
           /\ (Did("download") => Last(download[1].data) = text)
           /\ (pc = "idle" =>
                 /\ run_result = "done"
                 /\ Did("download")
                 /\ (Len(clicks) < MaxSubmits => ENABLED ClickGenerate))

C3_Witness ==
    /\ Len(results) = 2
    /\ ~results[1].ok
    /\ FailedThisRun
    /\ pc = "idle"
    /\ Len(workout_history) = 2

\* C4: when the credential is absent (None) or empty, no state of the session
\* has the form on the page, a prompt sent, a document written or the history
\* list created or changed; every run ends by st.stop() with the error shown.
C4_NoKeyNoForm ==
    (key = NoneKey \/ key = "") =>
        /\ ~form
        /\ pc \in {"start", "idle"}
        /\ sent = <<>>
        /\ pdf_calls = <<>>
        /\ files = <<>>
        /\ ~has_history
        /\ workout_history = <<>>
        /\ clicks = <<>>
        /\ (pc = "idle" => run_result = "stopped" /\ Len(errors) = 1)

C4_Witness ==
    /\ key = ""
    /\ pc = "idle"
    /\ run_result = "stopped"
    /\ errors = <<KeyMissingMessage>>

\* C5 as stated: the result is appended to the history list only after the
\* artifact has been offered for download.
C5_AppendAfterDownload == Did("append") => Did("download")

\* C5 as amended: the steps of a submission occur in the order: prompt built,
\* service called, result appended to the history list, result shown, document
\* rendered, artifact offered for download.
C5_OrderOfSteps ==
    IsPrefix(trace, <<"prompt", "call", "append", "show", "pdf", "download">>)

C5_Witness ==
    /\ trace = <<"prompt", "call", "append", "show", "pdf", "download">>
    /\ pc = "hist"

\* A file name of the form Workout_Plan_YYYYMMDD_HHMMSS.pdf: fourteen digits,
\* the date's eight and the time's six, with "_" between them.
IsPlanFileName(name) ==
    /\ Len(name) = 17
    /\ name[1] = "Workout_Plan_"
    /\ \A i \in 2..9 : IsDigit(name[i])
    /\ name[10] = "_"
    /\ \A i \in 11..16 : IsDigit(name[i])
    /\ name[17] = ".pdf"

\* C6 as stated: every call of create_pdf returns a name of that form, and any
\* two calls in one session return different names.
C6_NamesAlwaysDiffer ==
    /\ \A i \in 1..Len(pdf_calls) : IsPlanFileName(pdf_calls[i].name)
    /\ \A i, j \in 1..Len(pdf_calls) : i # j => pdf_calls[i].name # pdf_calls[j].name

\* C6 as amended: every call of create_pdf returns a name of that form; two
\* calls return different names exactly when their clock readings differ (in
\* the second or above), so two calls within the same second return the same
\* name, and the file then holds the document of the later call.
C6_NamesDifferBySecond ==
    /\ \A i \in 1..Len(pdf_calls) : IsPlanFileName(pdf_calls[i].name)
    /\ \A i, j \in 1..Len(pdf_calls) :
          (pdf_calls[i].name # pdf_calls[j].name) <=> (pdf_calls[i].at # pdf_calls[j].at)
    /\ \A i \in 1..Len(pdf_calls) :
          LET latest == CHOOSE j \in i..Len(pdf_calls) :
                            /\ pdf_calls[j].at = pdf_calls[i].at
                            /\ \A m \in (j + 1)..Len(pdf_calls) : pdf_calls[m].at # pdf_calls[i].at
          IN files[pdf_calls[i].name] = pdf_calls[latest].items

C6_Witness ==
    /\ Len(pdf_calls) = 2
    /\ pdf_calls[1].name = pdf_calls[2].name
    /\ pdf_calls[1].items # pdf_calls[2].items
    /\ files[pdf_calls[1].name] = pdf_calls[2].items

\* C7: the text items create_pdf writes are exactly, in order: the title, then
\* "Fitness Level: X", "Goal: Y", "Duration: Z minutes", "Equipment: W" for the
\* inputs X, Y, Z, W of the submission (Z in decimal), then the whole text of
\* the submission, unchanged; nothing else is written.
C7_DocumentItems ==
    \A i \in 1..Len(pdf_calls) :
        LET items == pdf_calls[i].items
            line == items[4]
        IN /\ Len(items) = 6
           /\ items[1] = <<"Personalized Workout Plan">>
           /\ items[2] = <<"Fitness Level: ", clicks[i].fitness_level>>
           /\ items[3] = <<"Goal: ", clicks[i].goal>>
           /\ Len(line) >= 3
           /\ line[1] = "Duration: "
           /\ Writes(SubSeq(line, 2, Len(line) - 1), clicks[i].duration)
           /\ line[Len(line)] = " minutes"
           /\ items[5] = <<"Equipment: ", clicks[i].equipment>>
           /\ items[6] = PlanOf(results[i])
           /\ files[pdf_calls[i].name] = items

C7_Witness ==
    /\ Len(pdf_calls) = 1
    /\ clicks[1] = [fitness_level |-> "Beginner", goal |-> "Weight Loss", duration |-> 30,
                    equipment |-> "Bodyweight"]
    /\ pdf_calls[1].items =
          << <<"Personalized Workout Plan">>, <<"Fitness Level: ", "Beginner">>,
             <<"Goal: ", "Weight Loss">>, <<"Duration: ", "3", "0", " minutes">>,
             <<"Equipment: ", "Bodyweight">>, <<"Do 10 squats.">> >>

\* C8: the prompt sent for a submission is the template with the level after
\* "for a", the goal after "goal is", the duration (in decimal) before
\* "minutes" and the equipment before "equipment", each the value of its own
\* input, and nothing else.
C8_PromptFromTemplate ==
    \A i \in 1..Len(sent) :
        LET prompt == sent[i]
            n == Len(prompt)
        IN /\ n >= 9
           /\ prompt[1] = "Create a personalized workout plan for a "
           /\ prompt[2] = clicks[i].fitness_level
           /\ prompt[3] = " individual whose goal is "
           /\ prompt[4] = clicks[i].goal
           /\ prompt[5] = ". The workout should last "
           /\ Writes(SubSeq(prompt, 6, n - 3), clicks[i].duration)
           /\ prompt[n - 2] = " minutes and use "
           /\ prompt[n - 1] = clicks[i].equipment
           /\ prompt[n] =
                 " equipment. Provide step-by-step exercises with sets, reps, and rest intervals."

C8_Witness ==
    /\ Len(sent) = 1
    /\ clicks[1].duration = 105
    /\ clicks[1].goal = "Endurance"
    /\ clicks[1].equipment = "Dumbbells"
    /\ Len(sent[1]) = 11

\* The closed sets of the form.
ValidInputs(r) ==
    /\ r.fitness_level \in {"Beginner", "Intermediate", "Advanced"}
    /\ r.goal \in {"Weight Loss", "Muscle Gain", "Endurance", "General Fitness"}
    /\ r.equipment \in {"Bodyweight", "Dumbbells", "Gym Equipment", "Resistance Bands"}
    /\ r.duration \in Int
    /\ 10 <= r.duration
    /\ r.duration <= 120

\* C9: in every state the widget values, which are what a run passes to
\* generate_workout, the arguments of every call of create_pdf and the fields
\* of every history entry are members of the three option sets (3, 4 and 4
\* values) and an integer duration with 10 <= duration <= 120.
C9_InputsWithinTheForm ==
    /\ ValidInputs(Inputs)
    /\ \A i \in 1..Len(clicks) : ValidInputs(clicks[i])
    /\ \A i \in 1..Len(workout_history) : ValidInputs(workout_history[i])
    /\ \A i \in 1..Len(pdf_calls) : ValidInputs(pdf_calls[i].args)
    /\ Cardinality(Range(FitnessLevels)) = 3
    /\ Cardinality(Range(Goals)) = 4
    /\ Cardinality(Range(Equipments)) = 4

C9_Witness ==
    /\ Len(workout_history) = 2
    /\ workout_history[1].duration = 30
    /\ workout_history[2].duration = 120
    /\ Len(pdf_calls) = 2
    /\ pdf_calls[2].args.duration = 120

\* C10 (state part): every click on the button has caused exactly one call of
\* the service once its run has passed the call, and none before.
C10_OneCallPerSubmit ==
    /\ Len(results) = Len(sent)
    /\ Len(sent) = Len(clicks) - (IF button /\ pc \in {"start", "main", "gen"} THEN 1 ELSE 0)

\* C10 (step part): a step of a run whose button was not pressed sends no
\* prompt, writes no document and appends nothing to the history list.
C10_IdleRunDoesNothing ==
    (~button /\ ~button') =>
        /\ sent' = sent
        /\ pdf_calls' = pdf_calls
        /\ files' = files
        /\ workout_history' = workout_history

\* C10: each submit action causes exactly one call to the generation service,
\* whether the call succeeds or fails, and a run in which the button was not
\* pressed makes no call, writes no document and appends nothing.
C10_CallsFollowSubmits == []C10_OneCallPerSubmit /\ [][C10_IdleRunDoesNothing]_vars

C10_Witness ==
    /\ pc = "idle"
    /\ ~button
    /\ run_result = "done"
    /\ edits = 1
    /\ Len(clicks) = 2
    /\ Len(sent) = 2
    /\ ~results[1].ok
    /\ results[2].ok

====
